---- MODULE Spec2Model ----
(***************************************************************************)
(* Model of the energy framework: HostMonitor / HostCluster telemetry,     *)
(* ConsolidationEngine.run_consolidation, EnergyAwareScheduler,            *)
(* DockerManager, the power function and the continuous monitor's metric   *)
(* generator.                                                              *)
(*                                                                         *)
(* Units.  Utilizations are integers in percent (0.3 is 30).  Power is in  *)
(* milliwatt (45 W is 45000), so that power * 0.1 and                      *)
(* p_idle + (p_max - p_idle) * cpu_util are exact integers.  Requested CPU *)
(* is in cores and requested memory in GB.  Floating point rounding is not *)
(* modelled: arithmetic is exact.                                          *)
(*                                                                         *)
(* The fields timestamp, temperature_c, latency_ms and throughput_mbps of  *)
(* a telemetry record are random presentation values that no decision      *)
(* reads; they are left out of the records.                                *)
(***************************************************************************)
EXTENDS Integers, Sequences, FiniteSets, TLC

VARIABLES
    hosts,        \* HostCluster.hosts: sequence of HostMonitor objects
    engine,       \* ConsolidationEngine: threshold, max_utilization
    scheduler,    \* EnergyAwareScheduler: the three weights
    snapshot,     \* <<>> or <<list returned by the last get_all_metrics>>
    result,       \* <<>> or <<dict returned by run_consolidation on snapshot>>
    shut,         \* history: the records run_consolidation counted as shut down
    containers,   \* DockerManager.containers: container_id -> record
    calls,        \* history: the last schedule_workload calls that had the same
                  \* arguments, made since the registry last changed
    sample,       \* <<>> or <<the last telemetry record one host produced>>
    powerLog,     \* history: the last calls of one power function with one
                  \* profile
    ops,          \* history: the last DockerManager call, and the one before it
                  \* when on the same container id, each with the registry
                  \* it found
    batch,        \* <<>> or <<the last schedule_batch call and what it returned>>
    monitor       \* ContinuousEnergyMonitor: its fields, its two files and the
                  \* position of start_monitoring in its loop

vars == <<hosts, engine, scheduler, snapshot, result, shut, containers, calls, sample,
          powerLog, ops, batch, monitor>>

(***************************************************************************)
(* Bounds of the model.                                                    *)
(***************************************************************************)
MaxHosts == 2
MaxCalls == 2
MaxPowerLog == 2
MaxBatch == 2
MaxCycles == 2
\* rows the energy log keeps; the source keeps 1000 (continuous_monitor.py
\* line 164), the model keeps fewer so that rows are dropped within MaxCycles
KeepRows == 7

(***************************************************************************)
(* Helpers.                                                                *)
(***************************************************************************)
RECURSIVE SumSeq(_, _)
\* sum of the integer sequence s from index i on
SumSeq(s, i) == IF i > Len(s) THEN 0 ELSE s[i] + SumSeq(s, i + 1)

RECURSIVE SumSet(_, _)
\* sum of f[x] over the x in S
SumSet(S, f) ==
    IF S = {} THEN 0
    ELSE LET x == CHOOSE y \in S : TRUE IN f[x] + SumSet(S \ {x}, f)

\* the last n elements of s (all of s when it is shorter)
Tail_n(s, n) == IF Len(s) <= n THEN s ELSE SubSeq(s, Len(s) - n + 1, Len(s))

(***************************************************************************)
(* HostMonitor and HostCluster (src/infrastructure/host_monitor.py).       *)
(***************************************************************************)
\* constructor arguments the harness uses: (cores, ram_gb)
HostShapes == {<<4, 8>>, <<8, 16>>}

HostMonitor(host_id, cores, ram_gb) ==
    [host_id |-> host_id, cores |-> cores, ram_gb |-> ram_gb,
     p_idle |-> 45, p_max |-> 120]

\* random.uniform(0.1, 0.9), sampled at its ends
CpuLevels == {10, 90}
\* random.uniform(0.2, 0.8), sampled at its ends
MemLevels == {20, 80}
\* random.randint(0, self.cores * 2), sampled at its ends
ContainerLevels(cores) == {0, cores * 2}

\* line 44: power = self.p_idle + (self.p_max - self.p_idle) * cpu_util
HostMonitor_power(self, cpu_util) ==
    self.p_idle * 1000 + (self.p_max - self.p_idle) * cpu_util * 10

IdleBound == 10
OverloadBound == 90

HostMonitor_state_Mut(cpu_util, memory_util) ==
    IF cpu_util < IdleBound /\ memory_util < IdleBound
    THEN [state |-> "idle", is_idle |-> TRUE]
    ELSE IF cpu_util >= OverloadBound \/ memory_util >= OverloadBound
         THEN [state |-> "overloaded", is_idle |-> FALSE]
         ELSE [state |-> "active", is_idle |-> FALSE]

\* lines 62-71: "Determine state"
HostMonitor_state(cpu_util, memory_util) ==
    IF cpu_util < IdleBound /\ memory_util < IdleBound
    THEN [state |-> "idle", is_idle |-> TRUE]
    ELSE IF cpu_util > OverloadBound \/ memory_util > OverloadBound
         THEN [state |-> "overloaded", is_idle |-> FALSE]
         ELSE [state |-> "active", is_idle |-> FALSE]

\* the record collect_metrics builds from its three random draws
HostMetrics(self, cpu_util, memory_util, n) ==
    [host_id |-> self.host_id,
     cpu_utilization |-> cpu_util,
     memory_utilization |-> memory_util,
     power_watts |-> HostMonitor_power(self, cpu_util),
     active_containers |-> n,
     state |-> HostMonitor_state(cpu_util, memory_util).state,
     is_idle |-> HostMonitor_state(cpu_util, memory_util).is_idle]

\* every record one call of collect_metrics can return
collect_metrics(self) ==
    {HostMetrics(self, c, m, n) :
        c \in CpuLevels, m \in MemLevels, n \in ContainerLevels(self.cores)}

RECURSIVE get_all_metrics_from(_, _)
get_all_metrics_from(hs, i) ==
    IF i > Len(hs) THEN {<<>>}
    ELSE {<<m>> \o rest : m \in collect_metrics(hs[i]),
                          rest \in get_all_metrics_from(hs, i + 1)}

get_all_metrics_Mut(hs) == get_all_metrics_from(hs, 2)

\* lines 97-99: every list one call of get_all_metrics can return,
\* [host.collect_metrics() for host in self.hosts]
get_all_metrics(hs) == get_all_metrics_from(hs, 1)

(***************************************************************************)
(* ConsolidationEngine (src/core/consolidation_engine.py).                 *)
(***************************************************************************)
ThresholdInputs == {30}

ConsolidationEngine(threshold, max_utilization) ==
    [threshold |-> threshold, max_utilization |-> max_utilization]

consolidation_step_Mut(self, host, acc) ==
    IF host.cpu_utilization < self.threshold /\ host.memory_utilization < self.threshold
    THEN IF host.state # "idle"
         THEN [acc EXCEPT !.hosts_shutdown = @ + 1,
                          !.energy_saved = @ + host.power_watts \div 10,
                          !.shut = Append(@, host)]
         ELSE acc
    ELSE [acc EXCEPT !.energy_saved = @ + host.power_watts \div 10]

\* lines 22-25: the body of the loop; acc.shut records the counted hosts
consolidation_step(self, host, acc) ==
    IF host.cpu_utilization < self.threshold /\ host.memory_utilization < self.threshold
    THEN IF host.state # "idle"
         THEN [acc EXCEPT !.hosts_shutdown = @ + 1,
                          !.energy_saved = @ + host.power_watts \div 10,
                          !.shut = Append(@, host)]
         ELSE acc
    ELSE acc

RECURSIVE consolidation_loop(_, _, _, _)
\* line 21: for host in hosts_metrics
consolidation_loop(self, hosts_metrics, i, acc) ==
    IF i > Len(hosts_metrics) THEN acc
    ELSE consolidation_loop(self, hosts_metrics, i + 1,
                            consolidation_step(self, hosts_metrics[i], acc))

\* lines 13-31; the field shut is the history of the counted hosts
run_consolidation(self, hosts_metrics) ==
    consolidation_loop(self, hosts_metrics, 1,
        [migrations |-> 0, hosts_shutdown |-> 0, energy_saved |-> 0, shut |-> <<>>])

(***************************************************************************)
(* EnergyAwareScheduler (src/orchestration/energy_aware_scheduler.py).     *)
(***************************************************************************)
\* lines 11-14, weights in percent
EnergyAwareScheduler(power_weight, utilization_weight, sla_weight) ==
    [power_weight |-> power_weight,
     utilization_weight |-> utilization_weight,
     sla_weight |-> sla_weight]

\* random.uniform(0.6, 0.9), sampled at its ends
ScoreLevels == {60, 90}

\* the workloads the harness offers (main.py create_sample_workloads gives
\* name, cpu_request, memory_request_gb and sla_tier)
Workloads ==
    {[name |-> "web", cpu_request |-> 6, memory_request_gb |-> 4, sla_tier |-> "gold"],
     [name |-> "worker", cpu_request |-> 8, memory_request_gb |-> 16, sla_tier |-> "bronze"],
     [name |-> "cache", cpu_request |-> 2, memory_request_gb |-> 2, sla_tier |-> "silver"]}

ContainerIds == {w.name : w \in Workloads}

schedule_workload_Mut(self, workload, available_hosts) ==
    IF available_hosts = <<>>
    THEN {<<>>}
    ELSE {<<[host_id |-> i,
             score |-> sc,
             reason |-> "simplified_scheduling"]>> :
             i \in DOMAIN available_hosts, sc \in ScoreLevels}

\* lines 16-27: every value one call can return; <<>> is None
schedule_workload(self, workload, available_hosts) ==
    IF available_hosts = <<>>
    THEN {<<>>}
    ELSE {<<[host_id |-> available_hosts[i].host_id,
             score |-> sc,
             reason |-> "simplified_scheduling"]>> :
             i \in DOMAIN available_hosts, sc \in ScoreLevels}

\* the lists the harness passes as available_hosts: the cluster's list with
\* some leading hosts left out (the whole list, ..., the empty list)
AvailableLists(hs) == {SubSeq(hs, i, Len(hs)) : i \in 1..(Len(hs) + 1)}

(***************************************************************************)
(* DockerManager (src/virtualization/docker_manager.py).                   *)
(* self.containers is a function whose domain is the set of known ids.     *)
(***************************************************************************)
create_container_Mut(cs, container_id, host_id, kwargs) ==
    [c \in DOMAIN cs \cup {container_id} |->
        IF c = container_id /\ c \notin DOMAIN cs
        THEN [host_id |-> host_id, status |-> "created",
              cpu_request |-> kwargs.cpu_request,
              memory_request_gb |-> kwargs.memory_request_gb]
        ELSE cs[c]]

\* lines 13-20; kwargs carries the workload's requests
create_container(cs, container_id, host_id, kwargs) ==
    [c \in DOMAIN cs \cup {container_id} |->
        IF c = container_id
        THEN [host_id |-> host_id, status |-> "created",
              cpu_request |-> kwargs.cpu_request,
              memory_request_gb |-> kwargs.memory_request_gb]
        ELSE cs[c]]

start_container_Mut(cs, container_id) ==
    IF container_id \in DOMAIN cs
    THEN [c \in DOMAIN cs |-> [cs[c] EXCEPT !.status = "running"]]
    ELSE cs

\* lines 22-26
start_container(cs, container_id) ==
    IF container_id \in DOMAIN cs
    THEN [cs EXCEPT ![container_id].status = "running"]
    ELSE cs

\* lines 28-32
stop_container(cs, container_id) ==
    IF container_id \in DOMAIN cs
    THEN [cs EXCEPT ![container_id].status = "stopped"]
    ELSE cs

remove_container_Mut(cs, container_id) ==
    IF container_id \in DOMAIN cs
    THEN [cs EXCEPT ![container_id].status = "removed"]
    ELSE cs

\* lines 34-38
remove_container(cs, container_id) ==
    IF container_id \in DOMAIN cs
    THEN [c \in DOMAIN cs \ {container_id} |-> cs[c]]
    ELSE cs

\* the containers assigned to a host, and what they request from it
AssignedTo(cs, host_id) == {c \in DOMAIN cs : cs[c].host_id = host_id}
CpuRequested(cs, host_id) ==
    SumSet(AssignedTo(cs, host_id), [c \in DOMAIN cs |-> cs[c].cpu_request])
MemRequested(cs, host_id) ==
    SumSet(AssignedTo(cs, host_id), [c \in DOMAIN cs |-> cs[c].memory_request_gb])

(***************************************************************************)
(* The power function (src/utils/helpers.py) and the continuous monitor's  *)
(* copy of it and metric generator (src/continuous_monitor.py).            *)
(***************************************************************************)
calculate_power_consumption_Mut(cpu_util, p_idle, p_max) ==
    p_max * 1000 + (p_max - p_idle) * cpu_util * 10

\* helpers.py lines 16-18
calculate_power_consumption(cpu_util, p_idle, p_max) ==
    p_idle * 1000 + (p_max - p_idle) * cpu_util * 10

\* continuous_monitor.py lines 57-59
Monitor_calculate_power_consumption(cpu_util, p_idle, p_max) ==
    p_idle * 1000 + (p_max - p_idle) * cpu_util * 10

\* the arguments the harness calls the power functions with
UtilInputs == {-50, 0, 50, 100, 150}
ProfileInputs == {<<45, 120>>, <<80, 200>>, <<120, 45>>}

\* continuous_monitor.py lines 32-38: self.hosts
MonitorHosts ==
    <<[id |-> 1, cores |-> 4, ram_gb |-> 8, p_idle |-> 45, p_max |-> 120],
      [id |-> 2, cores |-> 8, ram_gb |-> 16, p_idle |-> 80, p_max |-> 200],
      [id |-> 3, cores |-> 6, ram_gb |-> 12, p_idle |-> 60, p_max |-> 150],
      [id |-> 4, cores |-> 4, ram_gb |-> 8, p_idle |-> 45, p_max |-> 120],
      [id |-> 5, cores |-> 8, ram_gb |-> 16, p_idle |-> 80, p_max |-> 200]>>

Max2(a, b) == IF a >= b THEN a ELSE b
Min2(a, b) == IF a <= b THEN a ELSE b

\* random.uniform(0.3, 0.8) and random.uniform(-0.1, 0.1), at their ends
BaseCpuLevels == {30, 80}
CpuVariationLevels == {-10, 10}
\* random.uniform(0.4, 0.7) and random.uniform(-0.05, 0.05), at their ends
BaseMemoryLevels == {40, 70}
MemoryVariationLevels == {-5, 5}

Monitor_state_Mut(cpu_util, memory_util) ==
    IF cpu_util < IdleBound /\ memory_util < IdleBound
    THEN [state |-> "idle", is_idle |-> TRUE]
    ELSE IF cpu_util > OverloadBound \/ memory_util > OverloadBound
         THEN [state |-> "overloaded", is_idle |-> FALSE]
         ELSE [state |-> "active", is_idle |-> TRUE]

\* continuous_monitor.py lines 79-88: "Determine host state"
Monitor_state(cpu_util, memory_util) ==
    IF cpu_util < IdleBound /\ memory_util < IdleBound
    THEN [state |-> "idle", is_idle |-> TRUE]
    ELSE IF cpu_util > OverloadBound \/ memory_util > OverloadBound
         THEN [state |-> "overloaded", is_idle |-> FALSE]
         ELSE [state |-> "active", is_idle |-> FALSE]

\* the dict _generate_realistic_metrics builds from its random draws
RealisticMetrics(host, base_cpu, cpu_variation, base_memory, memory_variation, n) ==
    LET cpu_util == Max2(10, Min2(95, base_cpu + cpu_variation))
        memory_util == Max2(20, Min2(90, base_memory + memory_variation))
    IN  [cpu_utilization |-> cpu_util,
         memory_utilization |-> memory_util,
         power_watts |-> Monitor_calculate_power_consumption(cpu_util, host.p_idle, host.p_max),
         active_containers |-> n,
         state |-> Monitor_state(cpu_util, memory_util).state,
         is_idle |-> Monitor_state(cpu_util, memory_util).is_idle]

\* continuous_monitor.py lines 61-117: every dict one call can return
generate_realistic_metrics(host) ==
    {RealisticMetrics(host, bc, cv, bm, mv, n) :
        bc \in BaseCpuLevels, cv \in CpuVariationLevels,
        bm \in BaseMemoryLevels, mv \in MemoryVariationLevels,
        n \in ContainerLevels(host.cores)}

(***************************************************************************)
(* ContinuousEnergyMonitor: data points, the CSV log and the KPIs.         *)
(* A row carries the columns the KPIs read; timestamp is the number of the *)
(* cycle that produced the row.  The text form of the CSV and the averages *)
(* of the KPIs (divisions) are left out.                                   *)
(***************************************************************************)
\* the random draws of one _generate_realistic_metrics call: base_cpu,
\* cpu_variation, base_memory, memory_variation, and whether randint gives
\* its upper end
LowDraw == <<30, -10, 40, -5, FALSE>>
HighDraw == <<80, 10, 70, 5, TRUE>>

\* the draws of one _generate_data_point call, one per host: all low, all
\* high, or low and high in turn
MonitorDraws ==
    {[i \in DOMAIN MonitorHosts |-> LowDraw],
     [i \in DOMAIN MonitorHosts |-> HighDraw],
     [i \in DOMAIN MonitorHosts |-> IF i % 2 = 1 THEN LowDraw ELSE HighDraw]}

\* lines 119-148
generate_data_point(timestamp, draws) ==
    [i \in DOMAIN MonitorHosts |->
        LET host == MonitorHosts[i]
            d == draws[i]
            metrics == RealisticMetrics(host, d[1], d[2], d[3], d[4],
                                        IF d[5] THEN host.cores * 2 ELSE 0)
        IN  [timestamp |-> timestamp,
             host_id |-> host.id,
             cpu_utilization |-> metrics.cpu_utilization,
             memory_utilization |-> metrics.memory_utilization,
             cores |-> host.cores,
             ram_gb |-> host.ram_gb,
             power_watts |-> metrics.power_watts,
             active_containers |-> metrics.active_containers,
             state |-> metrics.state,
             is_idle |-> metrics.is_idle]]

update_csv_Mut(df, data_points) ==
    LET all == df \o data_points IN
    IF Len(all) > KeepRows THEN SubSeq(all, 1, KeepRows) ELSE all

\* lines 159-165: the rows _update_csv writes, from the rows it read
update_csv(df, data_points) ==
    LET all == df \o data_points IN
    IF Len(all) > KeepRows THEN SubSeq(all, Len(all) - KeepRows + 1, Len(all)) ELSE all

\* line 185: df.groupby('host_id').last()
groupby_last(df) ==
    [h \in {df[i].host_id : i \in DOMAIN df} |->
        df[CHOOSE i \in DOMAIN df :
              /\ df[i].host_id = h
              /\ \A j \in DOMAIN df : df[j].host_id = h => j <= i]]

\* lines 184-222: the KPIs of a log that is not empty
kpis_of(df) ==
    LET latest == groupby_last(df) IN
    [total_power_watts |->
        SumSet(DOMAIN latest, [h \in DOMAIN latest |-> latest[h].power_watts]),
     total_containers |->
        SumSet(DOMAIN latest, [h \in DOMAIN latest |-> latest[h].active_containers]),
     total_hosts |-> Cardinality(DOMAIN latest),
     active_hosts |-> Cardinality({h \in DOMAIN latest : latest[h].state = "active"}),
     idle_hosts |-> Cardinality({h \in DOMAIN latest : latest[h].state = "idle"}),
     total_data_points |-> Len(df)]

\* lines 44-45: an energy log that exists is kept by the constructor: the
\* directory is empty, or holds the log of one cycle of an earlier run
LeftoverLogs ==
    {<<>>, generate_data_point(0, [i \in DOMAIN MonitorHosts |-> LowDraw])}

\* lines 21-45: the monitor as constructed over the log it finds.
\* pc is the position of start_monitoring, points its local data_points,
\* cycle the clock; appended (history) is every row written to the log,
\* kpis_written (history) whether _update_kpis wrote the KPIs in this cycle
\* and halted_from (history) the position the loop was left from.
ContinuousEnergyMonitor(log) ==
    [running |-> TRUE, data_points |-> 0, csv |-> log, kpis |-> <<>>,
     pc |-> "new", points |-> <<>>, cycle |-> 0,
     appended |-> log, kpis_written |-> FALSE, halted_from |-> "none"]

(***************************************************************************)
(* Initial state: the objects as constructed.                              *)
(***************************************************************************)
InitObjects ==
    /\ hosts = <<>>
    /\ engine \in {ConsolidationEngine(t, 80) : t \in ThresholdInputs}
    /\ scheduler = EnergyAwareScheduler(40, 40, 20)
    /\ snapshot = <<>>
    /\ result = <<>>
    /\ shut = <<>>
    /\ containers = <<>>
    /\ calls = <<>>
    /\ sample = <<>>
    /\ powerLog = <<>>
    /\ ops = <<>>
    /\ batch = <<>>

Init ==
    /\ InitObjects
    /\ monitor = ContinuousEnergyMonitor(<<>>)

(***************************************************************************)
(* Cluster cycle: add_host, get_all_metrics, run_consolidation.            *)
(***************************************************************************)
\* HostCluster.add_host(HostMonitor(host_id, cores, ram_gb)); ids are given
\* in creation order.  The cluster is built before the first cycle samples
\* it (main.py lines 58-90).  The set of hosts changes, so the call histories restart.
AddHost ==
    /\ Len(hosts) < MaxHosts
    /\ snapshot = <<>>
    /\ \E shape \in HostShapes :
          hosts' = Append(hosts, HostMonitor(Len(hosts) + 1, shape[1], shape[2]))
    /\ calls' = <<>>
    /\ ops' = <<>>
    /\ UNCHANGED <<monitor, batch, engine, scheduler, snapshot, result, shut, containers, sample,
                   powerLog>>

\* a cycle starts: metrics = cluster.get_all_metrics(); no result yet
GetAllMetrics ==
    /\ \E l \in get_all_metrics(hosts) : snapshot' = <<l>>
    /\ result' = <<>>
    /\ shut' = <<>>
    /\ UNCHANGED <<monitor, ops, batch, hosts, engine, scheduler, containers, calls, sample, powerLog>>

RunConsolidation_Raises ==
    /\ snapshot # <<>>
    /\ snapshot[1] # <<>>
    /\ LET r == run_consolidation(engine, snapshot[1]) IN
          /\ result' = <<[migrations |-> r.migrations,
                          hosts_shutdown |-> r.hosts_shutdown,
                          energy_saved |-> r.energy_saved]>>
          /\ shut' = r.shut
    /\ UNCHANGED <<monitor, ops, batch, hosts, engine, scheduler, snapshot, containers, calls, sample, powerLog>>

RunConsolidation_Adapts ==
    /\ snapshot # <<>>
    /\ LET r == run_consolidation(engine, snapshot[1]) IN
          /\ result' = <<[migrations |-> r.migrations,
                          hosts_shutdown |-> r.hosts_shutdown,
                          energy_saved |-> r.energy_saved]>>
          /\ shut' = r.shut
          /\ engine' = IF r.hosts_shutdown > 0
                       THEN [engine EXCEPT !.threshold = 0]
                       ELSE engine
    /\ UNCHANGED <<monitor, ops, batch, hosts, scheduler, snapshot, containers, calls, sample, powerLog>>

\* result = engine.run_consolidation(metrics)
RunConsolidation ==
    /\ snapshot # <<>>
    /\ LET r == run_consolidation(engine, snapshot[1]) IN
          /\ result' = <<[migrations |-> r.migrations,
                          hosts_shutdown |-> r.hosts_shutdown,
                          energy_saved |-> r.energy_saved]>>
          /\ shut' = r.shut
    /\ UNCHANGED <<monitor, ops, batch, hosts, engine, scheduler, snapshot, containers, calls, sample, powerLog>>

Next == AddHost \/ GetAllMetrics \/ RunConsolidation

Spec == Init /\ [][Next]_vars

(***************************************************************************)
(* Placement: schedule_workload, then DockerManager on the registry.       *)
(***************************************************************************)
\* decision = scheduler.schedule_workload(workload, available_hosts)
ScheduleWorkload ==
    /\ \E w \in Workloads, avail \in AvailableLists(hosts) :
       \E d \in schedule_workload(scheduler, w, avail) :
          LET call == [workload |-> w, available_hosts |-> avail, decision |-> d] IN
          calls' = IF /\ calls # <<>>
                      /\ calls[1].workload = w
                      /\ calls[1].available_hosts = avail
                   THEN Tail_n(Append(calls, call), MaxCalls)
                   ELSE <<call>>
    /\ UNCHANGED <<monitor, ops, batch, hosts, engine, scheduler, snapshot, result, shut, containers,
                   sample, powerLog>>

\* a DockerManager call is logged with the registry it found and with what
\* it returned; host_id is <<>> for the calls that take none.  The log keeps
\* this call and the call before it when both are on the same container id.
LogOp(op, container_id, host_id, returned) ==
    LET call == [op |-> op, container_id |-> container_id, host_id |-> host_id,
                 returned |-> returned, before |-> containers]
    IN  ops' = IF ops # <<>> /\ ops[Len(ops)].container_id = container_id
               THEN <<ops[Len(ops)], call>>
               ELSE <<call>>

\* the placement is committed: docker_manager.create_container(name,
\* decision['host_id'], cpu_request=..., memory_request_gb=...)
CreateContainer ==
    /\ calls # <<>>
    /\ calls[Len(calls)].decision # <<>>
    /\ LET call == calls[Len(calls)] IN
          /\ containers' = create_container(containers, call.workload.name,
                                            call.decision[1].host_id, call.workload)
          /\ LogOp("create_container", call.workload.name,
                   <<call.decision[1].host_id>>, TRUE)
    /\ calls' = <<>>
    /\ UNCHANGED <<monitor, batch, hosts, engine, scheduler, snapshot, result, shut, sample,
                   powerLog>>

\* host ids a caller passes to create_container; the cluster's hosts have the
\* ids 1..Len(hosts)
HostIdArgs == 1..MaxHosts

\* docker_manager.create_container(container_id, host_id, **workload) called
\* directly, with any host id
CreateContainerOn ==
    /\ \E w \in Workloads, h \in HostIdArgs :
          /\ containers' = create_container(containers, w.name, h, w)
          /\ LogOp("create_container", w.name, <<h>>, TRUE)
    /\ calls' = <<>>
    /\ UNCHANGED <<monitor, batch, hosts, engine, scheduler, snapshot, result, shut, sample,
                   powerLog>>

StartContainer ==
    /\ \E c \in ContainerIds :
          /\ containers' = start_container(containers, c)
          /\ LogOp("start_container", c, <<>>, TRUE)
    /\ calls' = IF containers' = containers THEN calls ELSE <<>>
    /\ UNCHANGED <<monitor, batch, hosts, engine, scheduler, snapshot, result, shut, sample,
                   powerLog>>

StopContainer ==
    /\ \E c \in ContainerIds :
          /\ containers' = stop_container(containers, c)
          /\ LogOp("stop_container", c, <<>>, TRUE)
    /\ calls' = IF containers' = containers THEN calls ELSE <<>>
    /\ UNCHANGED <<monitor, batch, hosts, engine, scheduler, snapshot, result, shut, sample,
                   powerLog>>

RemoveContainer ==
    /\ \E c \in ContainerIds :
          /\ containers' = remove_container(containers, c)
          /\ LogOp("remove_container", c, <<>>, TRUE)
    /\ calls' = IF containers' = containers THEN calls ELSE <<>>
    /\ UNCHANGED <<monitor, batch, hosts, engine, scheduler, snapshot, result, shut, sample,
                   powerLog>>

NextPlace ==
    \/ AddHost
    \/ ScheduleWorkload
    \/ CreateContainer

SpecPlace == Init /\ [][NextPlace]_vars

\* schedule_workload called on its own, on a cluster with an empty registry
NextSchedule == AddHost \/ ScheduleWorkload

SpecSchedule == Init /\ [][NextSchedule]_vars

\* DockerManager called directly
NextDocker ==
    \/ CreateContainerOn
    \/ StartContainer
    \/ StopContainer
    \/ RemoveContainer

SpecDocker == Init /\ [][NextDocker]_vars

(***************************************************************************)
(* Telemetry of one host.                                                  *)
(***************************************************************************)
\* m = host.collect_metrics() for one host of the cluster
CollectMetrics ==
    /\ \E i \in DOMAIN hosts : \E m \in collect_metrics(hosts[i]) :
          sample' = <<[source |-> "HostMonitor", host |-> hosts[i], metrics |-> m]>>
    /\ UNCHANGED <<monitor, ops, batch, hosts, engine, scheduler, snapshot, result, shut, containers,
                   calls, powerLog>>

\* m = monitor._generate_realistic_metrics(host) for one host of the monitor
GenerateRealisticMetrics ==
    /\ \E i \in DOMAIN MonitorHosts : \E m \in generate_realistic_metrics(MonitorHosts[i]) :
          sample' = <<[source |-> "ContinuousEnergyMonitor",
                       host |-> MonitorHosts[i], metrics |-> m]>>
    /\ UNCHANGED <<monitor, ops, batch, hosts, engine, scheduler, snapshot, result, shut, containers,
                   calls, powerLog>>

NextTelemetry ==
    \/ AddHost
    \/ CollectMetrics
    \/ GenerateRealisticMetrics

SpecTelemetry == Init /\ [][NextTelemetry]_vars

(***************************************************************************)
(* The power formula, called on its own.                                   *)
(***************************************************************************)
\* a call of the power formula is logged; the log keeps the last calls that
\* had the same fn and profile
LogPower(fn, u, p_idle, p_max, watts) ==
    LET call == [fn |-> fn, cpu_util |-> u, p_idle |-> p_idle, p_max |-> p_max,
                 watts |-> watts]
    IN  powerLog' = IF /\ powerLog # <<>>
                       /\ powerLog[1].fn = fn
                       /\ powerLog[1].p_idle = p_idle
                       /\ powerLog[1].p_max = p_max
                    THEN Tail_n(Append(powerLog, call), MaxPowerLog)
                    ELSE <<call>>

\* watts = calculate_power_consumption(cpu_util, p_idle, p_max)
CalculatePowerConsumption ==
    /\ \E u \in UtilInputs, prof \in ProfileInputs :
          LogPower("helpers", u, prof[1], prof[2],
                   calculate_power_consumption(u, prof[1], prof[2]))
    /\ UNCHANGED <<monitor, ops, batch, hosts, engine, scheduler, snapshot, result, shut, containers,
                   calls, sample>>

\* watts = monitor._calculate_power_consumption(cpu_util, p_idle, p_max)
MonitorCalculatePowerConsumption ==
    /\ \E u \in UtilInputs, prof \in ProfileInputs :
          LogPower("monitor", u, prof[1], prof[2],
                   Monitor_calculate_power_consumption(u, prof[1], prof[2]))
    /\ UNCHANGED <<monitor, ops, batch, hosts, engine, scheduler, snapshot, result, shut, containers,
                   calls, sample>>

\* line 44 of collect_metrics on its own: the power of a HostMonitor at a
\* utilization collect_metrics can draw
HostMonitorPower ==
    /\ \E shape \in HostShapes, u \in CpuLevels :
          LET self == HostMonitor(1, shape[1], shape[2]) IN
          LogPower("HostMonitor", u, self.p_idle, self.p_max, HostMonitor_power(self, u))
    /\ UNCHANGED <<monitor, ops, batch, hosts, engine, scheduler, snapshot, result, shut, containers,
                   calls, sample>>

NextPower ==
    \/ CalculatePowerConsumption
    \/ MonitorCalculatePowerConsumption
    \/ HostMonitorPower

SpecPower == Init /\ [][NextPower]_vars

(***************************************************************************)
(* The loop of ContinuousEnergyMonitor.start_monitoring, one action per    *)
(* step of its body, with the stop request and the interrupt arriving at   *)
(* any position.                                                           *)
(***************************************************************************)
OtherVars == <<hosts, engine, scheduler, snapshot, result, shut, containers, calls,
               sample, powerLog, ops, batch>>

\* the monitor constructed over the log it finds, beside the other objects
InitMonitor ==
    /\ InitObjects
    /\ monitor \in {ContinuousEnergyMonitor(log) : log \in LeftoverLogs}

\* lines 230-239: start_monitoring is called and enters its try block
StartMonitoring ==
    /\ monitor.pc = "new"
    /\ monitor' = [monitor EXCEPT !.pc = "while"]
    /\ UNCHANGED OtherVars

\* line 240: while self.running; leaving the loop runs the finally clause
WhileRunning ==
    /\ monitor.pc = "while"
    /\ IF monitor.running
       THEN /\ monitor.cycle < MaxCycles
            /\ monitor' = [monitor EXCEPT !.pc = "generate", !.cycle = @ + 1,
                                          !.kpis_written = FALSE]
       ELSE monitor' = [monitor EXCEPT !.pc = "halted", !.halted_from = "while",
                                       !.running = FALSE]
    /\ UNCHANGED OtherVars

\* line 242: data_points = self._generate_data_point()
GenerateDataPoint ==
    /\ monitor.pc = "generate"
    /\ \E draws \in MonitorDraws :
          monitor' = [monitor EXCEPT !.pc = "update_csv",
                                     !.points = generate_data_point(monitor.cycle, draws)]
    /\ UNCHANGED OtherVars

\* line 245: self._update_csv(data_points).  The file operations can raise;
\* the except clause of line 175 swallows it: before the CSV is written
\* (lines 155-168) nothing has changed, at to_json (line 171) the CSV is
\* written and self.data_points is not advanced.
UpdateCsv ==
    /\ monitor.pc = "update_csv"
    /\ \E outcome \in {"returns", "raises_before_to_csv", "raises_at_to_json"} :
          monitor' =
             IF outcome = "raises_before_to_csv"
             THEN [monitor EXCEPT !.pc = "update_kpis"]
             ELSE [monitor EXCEPT
                      !.pc = "update_kpis",
                      !.csv = update_csv(monitor.csv, monitor.points),
                      !.appended = @ \o monitor.points,
                      !.data_points = IF outcome = "returns"
                                      THEN @ + Len(monitor.points) ELSE @]
    /\ UNCHANGED OtherVars

\* line 246: self._update_kpis() reads the CSV again; an empty log or an
\* exception (line 227) leaves the KPIs file as it was
UpdateKpis ==
    /\ monitor.pc = "update_kpis"
    /\ \E outcome \in {"returns", "raises"} :
          monitor' = [monitor EXCEPT
                         !.pc = "sleep",
                         !.kpis_written = outcome = "returns" /\ monitor.csv # <<>>,
                         !.kpis = IF outcome = "returns" /\ monitor.csv # <<>>
                                  THEN <<kpis_of(monitor.csv)>> ELSE @]
    /\ UNCHANGED OtherVars

\* lines 248-257: the status line and time.sleep(interval)
Sleep ==
    /\ monitor.pc = "sleep"
    /\ monitor' = [monitor EXCEPT !.pc = "while", !.points = <<>>]
    /\ UNCHANGED OtherVars

\* lines 266-268, called from another thread
StopMonitoring ==
    /\ monitor.pc # "halted"
    /\ monitor.running
    /\ monitor' = [monitor EXCEPT !.running = FALSE]
    /\ UNCHANGED OtherVars

\* lines 271-274: SIGINT runs signal_handler in the main thread between two
\* bytecodes of the loop; sys.exit(0) raises SystemExit there, which no
\* except clause of start_monitoring catches, and the finally clause runs
SignalHandler ==
    /\ monitor.pc \in {"while", "generate", "update_csv", "update_kpis", "sleep"}
    /\ monitor' = [monitor EXCEPT !.pc = "halted", !.halted_from = monitor.pc,
                                  !.running = FALSE]
    /\ UNCHANGED OtherVars

NextMonitor ==
    \/ StartMonitoring
    \/ WhileRunning
    \/ GenerateDataPoint
    \/ UpdateCsv
    \/ UpdateKpis
    \/ Sleep
    \/ StopMonitoring
    \/ SignalHandler

SpecMonitor == InitMonitor /\ [][NextMonitor]_vars

(***************************************************************************)
(* Batch scheduling.  main.py line 205 calls scheduler.schedule_batch, which *)
(* the scheduler of the source does not define; the batch is the           *)
(* specification's: the single placement applied to the workloads in       *)
(* input order, each placement committed to the registry before the next   *)
(* workload is scheduled.                                                  *)
(***************************************************************************)
RECURSIVE schedule_batch_from(_, _, _, _, _)
\* the outcomes of scheduling workloads[i..] on the registry cs: the
\* decisions, the registry each schedule_workload call found, and the
\* registry at the end
schedule_batch_from(self, cs, workloads, available_hosts, i) ==
    IF i > Len(workloads)
    THEN {[decisions |-> <<>>, seen |-> <<>>, containers |-> cs]}
    ELSE UNION {
           LET committed == IF d = <<>> THEN cs
                            ELSE create_container(cs, workloads[i].name,
                                                  d[1].host_id, workloads[i])
           IN  {[decisions |-> <<d>> \o r.decisions,
                 seen |-> <<cs>> \o r.seen,
                 containers |-> r.containers] :
                   r \in schedule_batch_from(self, committed, workloads,
                                             available_hosts, i + 1)} :
           d \in schedule_workload(self, workloads[i], available_hosts)}

schedule_batch(self, cs, workloads, available_hosts) ==
    schedule_batch_from(self, cs, workloads, available_hosts, 1)

\* the lists of distinct workloads a caller passes as one batch
Batches ==
    UNION {{ws \in [1..n -> Workloads] : \A a, b \in 1..n : a # b => ws[a] # ws[b]} :
           n \in 1..MaxBatch}

\* placement_decisions = scheduler.schedule_batch(workloads), scheduling on
\* the hosts of the cluster
ScheduleBatch ==
    /\ \E ws \in Batches : \E r \in schedule_batch(scheduler, containers, ws, hosts) :
          /\ batch' = <<[workloads |-> ws, decisions |-> r.decisions, seen |-> r.seen]>>
          /\ containers' = r.containers
    /\ calls' = <<>>
    /\ ops' = <<>>
    /\ UNCHANGED <<monitor, hosts, engine, scheduler, snapshot, result, shut, sample, powerLog>>

NextBatch == AddHost \/ ScheduleBatch

SpecBatch == Init /\ [][NextBatch]_vars

(***************************************************************************)
(* run_consolidation on telemetry handed to it by a caller.                *)
(***************************************************************************)
\* utilizations of the records a caller hands to run_consolidation: below
\* the idle bound, between the bounds, and at the default threshold
FeedCpuLevels == {5, 20, 30}
FeedMemLevels == {5, 20}

\* every HostMetrics record of one host at those utilizations; power and
\* state follow from the utilization as in collect_metrics
feed_metrics(self) ==
    {HostMetrics(self, c, m, n) :
        c \in FeedCpuLevels, m \in FeedMemLevels, n \in ContainerLevels(self.cores)}

RECURSIVE feed_all_metrics_from(_, _)
feed_all_metrics_from(hs, i) ==
    IF i > Len(hs) THEN {<<>>}
    ELSE {<<m>> \o rest : m \in feed_metrics(hs[i]),
                          rest \in feed_all_metrics_from(hs, i + 1)}

\* a caller builds one HostMetrics per host of the cluster; no result yet
FeedMetrics ==
    /\ \E l \in feed_all_metrics_from(hosts, 1) : snapshot' = <<l>>
    /\ result' = <<>>
    /\ shut' = <<>>
    /\ UNCHANGED <<monitor, ops, batch, hosts, engine, scheduler, containers, calls, sample, powerLog>>

NextEngine == AddHost \/ FeedMetrics \/ RunConsolidation

SpecEngine == Init /\ [][NextEngine]_vars

(***************************************************************************)
(* Construction of the engine and of the scheduler.                        *)
(***************************************************************************)
\* constructor arguments in percent: below 0, the defaults, above 1
ThresholdArgs == {-10, 30, 150}
MaxUtilizationArgs == {-10, 80, 150}
WeightArgs == {20, 40, 50}

\* engine = ConsolidationEngine(threshold, max_utilization)
ConstructEngine ==
    /\ \E t \in ThresholdArgs, m \in MaxUtilizationArgs :
          engine' = ConsolidationEngine(t, m)
    /\ UNCHANGED <<monitor, ops, batch, hosts, scheduler, snapshot, result, shut, containers, calls,
                   sample, powerLog>>

\* scheduler = EnergyAwareScheduler(power_weight, utilization_weight, sla_weight)
ConstructScheduler ==
    /\ \E pw \in WeightArgs, uw \in WeightArgs, sw \in WeightArgs :
          scheduler' = EnergyAwareScheduler(pw, uw, sw)
    /\ UNCHANGED <<monitor, ops, batch, hosts, engine, snapshot, result, shut, containers, calls,
                   sample, powerLog>>

NextConfig == ConstructEngine \/ ConstructScheduler

SpecConfig == Init /\ [][NextConfig]_vars

(***************************************************************************)
(* Properties.                                                             *)
(***************************************************************************)
Watts(w) == w * 1000

\* the power of the hosts the last run_consolidation counted as shut down
ShutPower == SumSeq([i \in DOMAIN shut |-> shut[i].power_watts], 1)

\* C1: after any sequence of placements, on every host the requested CPU of
\* its assigned workloads is at most its core count and their requested
\* memory is at most its memory capacity.
C1_CapacityNeverExceeded ==
    \A i \in DOMAIN hosts :
        /\ CpuRequested(containers, hosts[i].host_id) <= hosts[i].cores
        /\ MemRequested(containers, hosts[i].host_id) <= hosts[i].ram_gb

\* C2: no host that run_consolidation counted as shut down has one or more
\* workloads.
C2_NoLoadedHostShutDown ==
    \A i \in DOMAIN shut : shut[i].active_containers = 0

\* C3: the energy_saved that run_consolidation returns is at most the sum of
\* the power_watts of the hosts the same call counted as shut down.
C3_SavedAtMostShutPower ==
    result # <<>> => result[1].energy_saved <= ShutPower

\* a call counted one host and passed over another
C3_Witness ==
    /\ result # <<>>
    /\ result[1].hosts_shutdown = 1
    /\ Len(shut) = 1
    /\ Len(snapshot[1]) = 2
    /\ result[1].energy_saved > 0

\* C4: when every host shut down in the cycle holds zero workloads, the
\* energy saved equals the sum of those hosts' power draw.
C4_SavedEqualsPowerOfEmptyHosts ==
    (result # <<>> /\ \A i \in DOMAIN shut : shut[i].active_containers = 0)
        => result[1].energy_saved = ShutPower

\* C5: two schedule_workload calls with the same workload and the same list
\* of hosts, in the same state, return the same host id (or both none).
C5_Deterministic ==
    \A i, j \in DOMAIN calls :
        (/\ calls[i].workload = calls[j].workload
         /\ calls[i].available_hosts = calls[j].available_hosts)
        => /\ (calls[i].decision = <<>>) = (calls[j].decision = <<>>)
           /\ calls[i].decision # <<>> =>
                 calls[i].decision[1].host_id = calls[j].decision[1].host_id

\* hosts that no score can tell apart: same profile, same assigned load
Alike(h1, h2) ==
    /\ h1.cores = h2.cores /\ h1.ram_gb = h2.ram_gb
    /\ h1.p_idle = h2.p_idle /\ h1.p_max = h2.p_max
    /\ CpuRequested(containers, h1.host_id) = CpuRequested(containers, h2.host_id)
    /\ MemRequested(containers, h1.host_id) = MemRequested(containers, h2.host_id)

\* C6: when the offered hosts all have the same score (they are alike in
\* profile and load), schedule_workload returns the one with the lowest id.
C6_TieGoesToLowestId ==
    \A k \in DOMAIN calls :
        LET avail == calls[k].available_hosts IN
        (/\ calls[k].decision # <<>>
         /\ \A a, b \in DOMAIN avail : Alike(avail[a], avail[b]))
        => \A a \in DOMAIN avail : calls[k].decision[1].host_id <= avail[a].host_id

\* the host has the residual CPU and memory the workload requests
Fits(h, w) ==
    /\ CpuRequested(containers, h.host_id) + w.cpu_request <= h.cores
    /\ MemRequested(containers, h.host_id) + w.memory_request_gb <= h.ram_gb

\* C7: schedule_workload returns no host whenever no offered host has the
\* residual CPU and memory the workload requests.
C7_NoCapacityWhenNothingFits ==
    \A k \in DOMAIN calls :
        (\A a \in DOMAIN calls[k].available_hosts :
            ~Fits(calls[k].available_hosts[a], calls[k].workload))
        => calls[k].decision = <<>>

\* C8: for a utilization in [0,1] and p_idle < p_max each power function
\* returns a value within [p_idle, p_max], and a call with a utilization at
\* least as high returns at least as much.
C8_PowerBoundedAndMonotonic ==
    /\ \A k \in DOMAIN powerLog :
          LET c == powerLog[k] IN
          (c.cpu_util >= 0 /\ c.cpu_util <= 100 /\ c.p_idle < c.p_max)
          => (Watts(c.p_idle) <= c.watts /\ c.watts <= Watts(c.p_max))
    /\ \A k, l \in DOMAIN powerLog :
          LET c == powerLog[k]
              d == powerLog[l]
          IN  (/\ c.fn = d.fn /\ c.p_idle = d.p_idle /\ c.p_max = d.p_max
               /\ c.p_idle < c.p_max
               /\ 0 <= c.cpu_util /\ c.cpu_util <= d.cpu_util /\ d.cpu_util <= 100)
              => c.watts <= d.watts

\* helpers.calculate_power_consumption was called at 0.5 and then at 1.0
C8_Witness ==
    /\ Len(powerLog) = 2
    /\ powerLog[1].fn = "helpers" /\ powerLog[2].fn = "helpers"
    /\ powerLog[1].p_idle = 45 /\ powerLog[1].p_max = 120
    /\ powerLog[1].cpu_util = 50 /\ powerLog[2].cpu_util = 100
    /\ powerLog[1].watts < powerLog[2].watts
    /\ powerLog[2].watts = Watts(120)

\* C9: for p_idle < p_max the power function's result is within
\* [p_idle, p_max] for every utilization: p_idle below 0, p_max above 1.
C9_PowerClamped ==
    \A k \in DOMAIN powerLog :
        LET c == powerLog[k] IN
        (c.fn # "HostMonitor" /\ c.p_idle < c.p_max)
        => /\ Watts(c.p_idle) <= c.watts /\ c.watts <= Watts(c.p_max)
           /\ c.cpu_util < 0 => c.watts = Watts(c.p_idle)
           /\ c.cpu_util > 100 => c.watts = Watts(c.p_max)

\* C10: the state of every sampled record is idle when CPU and memory are
\* both below 0.1, otherwise overloaded when CPU or memory is above 0.9,
\* otherwise active.
C10_StateFromUtilization ==
    sample # <<>> =>
        LET m == sample[1].metrics IN
        m.state = IF m.cpu_utilization < 10 /\ m.memory_utilization < 10
                  THEN "idle"
                  ELSE IF m.cpu_utilization > 90 \/ m.memory_utilization > 90
                       THEN "overloaded"
                       ELSE "active"

\* a HostMonitor sample with the CPU exactly at the overload bound
C10_Witness ==
    /\ sample # <<>>
    /\ sample[1].source = "HostMonitor"
    /\ sample[1].metrics.cpu_utilization = 90
    /\ sample[1].metrics.state = "active"

\* the record of the host with this id in a list of telemetry records
RecordsOf(hosts_metrics, host_id) ==
    {i \in DOMAIN hosts_metrics : hosts_metrics[i].host_id = host_id}

\* C11: a host that a consolidation cycle shut down is sampled, by the next
\* get_all_metrics, in state shutdown and at the utilization it had: sampling
\* does not take it out of shutdown.
C11_ShutdownIsAbsorbing ==
    [][\A i \in DOMAIN shut :
          snapshot' # snapshot =>
             \A j \in RecordsOf(snapshot'[1], shut[i].host_id) :
                /\ snapshot'[1][j].state = "shutdown"
                /\ snapshot'[1][j].cpu_utilization = shut[i].cpu_utilization
                /\ snapshot'[1][j].memory_utilization = shut[i].memory_utilization]_vars

\* C13: a host that a cycle counted in hosts_shutdown is not counted again by
\* the cycle that follows: the next snapshot of the cluster does not make
\* run_consolidation count the same host.
C13_NotCountedTwice ==
    [][\A i \in DOMAIN shut :
          snapshot' # snapshot =>
             \A j \in DOMAIN run_consolidation(engine, snapshot'[1]).shut :
                run_consolidation(engine, snapshot'[1]).shut[j].host_id
                   # shut[i].host_id]_vars

\* C14: the hosts that run_consolidation counted as shut down hold no
\* workload that was not migrated: the workloads on them are at most the
\* migrations the call reports.
C14_ShutDownOnlyWhenDrained ==
    result # <<>> =>
        SumSeq([i \in DOMAIN shut |-> shut[i].active_containers], 1)
            <= result[1].migrations

\* a record that the consolidation pass is to treat as a candidate
Candidate(self, host) ==
    /\ host.cpu_utilization < self.threshold
    /\ host.memory_utilization < self.threshold
    /\ host.state # "shutdown"

\* C12: the hosts run_consolidation counts are exactly the records whose CPU
\* and memory utilization are both strictly below the threshold and whose
\* state is not shutdown; hosts_shutdown is their number.
C12_CountedIffCandidate ==
    result # <<>> =>
        /\ shut = SelectSeq(snapshot[1], LAMBDA host : Candidate(engine, host))
        /\ result[1].hosts_shutdown = Len(shut)

\* C15: the weights of a constructed EnergyAwareScheduler sum to 1.0
\* (a construction with other weights fails and leaves no scheduler).
C15_WeightsSumToOne ==
    scheduler.power_weight + scheduler.utilization_weight + scheduler.sla_weight = 100

\* C16: the threshold and the max_utilization of a constructed
\* ConsolidationEngine are within [0, 1] (a construction with a value
\* outside fails and leaves no engine).
C16_ConfigurationInRange ==
    /\ 0 <= engine.threshold /\ engine.threshold <= 100
    /\ 0 <= engine.max_utilization /\ engine.max_utilization <= 100

\* the ids of the hosts of the cluster
KnownHosts == {hosts[i].host_id : i \in DOMAIN hosts}

\* C17: a start, stop or remove call with a container id that is not in the
\* registry, and a create call with a host id that is not in the cluster,
\* does not return success.
C17_UnknownIdsReportError ==
    \A k \in DOMAIN ops :
        LET c == ops[k] IN
        (\/ c.op = "create_container" /\ c.host_id[1] \notin KnownHosts
         \/ c.op # "create_container" /\ c.container_id \notin DOMAIN c.before)
        => c.returned # TRUE

\* the last two calls were create_container of an id the registry did not
\* have and then remove_container of that id
CreatedThenRemoved ==
    /\ Len(ops) = 2
    /\ ops[1].op = "create_container"
    /\ ops[1].container_id \notin DOMAIN ops[1].before
    /\ ops[2].op = "remove_container"

\* C18: create_container of a new container id followed by remove_container
\* of that id leaves the registry, and with it every host's set of assigned
\* containers and their requested CPU and memory, as they were before the
\* create.
C18_CreateThenRemoveRestores ==
    CreatedThenRemoved =>
        /\ containers = ops[1].before
        /\ \A h \in HostIdArgs :
              /\ AssignedTo(containers, h) = AssignedTo(ops[1].before, h)
              /\ CpuRequested(containers, h) = CpuRequested(ops[1].before, h)
              /\ MemRequested(containers, h) = MemRequested(ops[1].before, h)

\* the round trip was made on a host that holds another, running container
C18_Witness ==
    /\ CreatedThenRemoved
    /\ \E c \in DOMAIN containers :
          /\ containers[c].host_id = ops[1].host_id[1]
          /\ containers[c].status = "running"

\* h1 is at a higher utilization than h2: a larger share of its cores is
\* requested by its containers, and no smaller share of its memory
MoreUtilized(h1, h2) ==
    /\ CpuRequested(containers, h1.host_id) * h2.cores
          > CpuRequested(containers, h2.host_id) * h1.cores
    /\ MemRequested(containers, h1.host_id) * h2.ram_gb
          >= MemRequested(containers, h2.host_id) * h1.ram_gb

\* C20: when every offered host has room for a gold workload, the host
\* schedule_workload returns for it is not at a higher utilization than
\* another offered host.
C20_GoldGetsTheHeadroom ==
    \A k \in DOMAIN calls :
        LET avail == calls[k].available_hosts
            w == calls[k].workload
        IN  (/\ w.sla_tier = "gold"
             /\ calls[k].decision # <<>>
             /\ \A a \in DOMAIN avail : Fits(avail[a], w))
            => \A a, b \in DOMAIN avail :
                  avail[a].host_id = calls[k].decision[1].host_id
                     => ~MoreUtilized(avail[a], avail[b])

\* the host has, in the registry cs, the residual CPU and memory the
\* workload requests
FitsIn(cs, h, w) ==
    /\ CpuRequested(cs, h.host_id) + w.cpu_request <= h.cores
    /\ MemRequested(cs, h.host_id) + w.memory_request_gb <= h.ram_gb

\* C19: the decision for the k-th workload of a batch takes into account
\* the capacity the placements of workloads 1..k-1 consumed: a host that had
\* room for the workload when the batch began is chosen for it only if it
\* still has room in the registry with those placements committed.
C19_BatchSeesEarlierPlacements ==
    batch # <<>> =>
        LET b == batch[1] IN
        \A k \in DOMAIN b.workloads : \A i \in DOMAIN hosts :
            (/\ b.decisions[k] # <<>>
             /\ b.decisions[k][1].host_id = hosts[i].host_id
             /\ FitsIn(b.seen[1], hosts[i], b.workloads[k]))
            => FitsIn(b.seen[k], hosts[i], b.workloads[k])

\* C21: run_consolidation returns on every snapshot list, the empty list
\* included, and what it returns has the three fields migrations,
\* hosts_shutdown and energy_saved, each a count or an amount.
C21_AlwaysReturnsResult ==
    /\ snapshot # <<>> => ENABLED RunConsolidation
    /\ result # <<>> =>
          /\ DOMAIN result[1] = {"migrations", "hosts_shutdown", "energy_saved"}
          /\ result[1].migrations \in Nat
          /\ result[1].hosts_shutdown \in 0..Len(snapshot[1])
          /\ result[1].energy_saved \in Nat

\* run_consolidation returned on the empty list
C21_Witness ==
    /\ snapshot = << <<>> >>
    /\ result = <<[migrations |-> 0, hosts_shutdown |-> 0, energy_saved |-> 0]>>

C26_StateAndIsIdleAgree ==
    sample # <<>> =>
        LET m == sample[1].metrics IN
        /\ m.state \in {"idle", "active", "overloaded"}
        /\ m.is_idle = (m.state = "idle")

\* a record of the continuous monitor for a host that is not idle
C26_Witness ==
    /\ sample # <<>>
    /\ sample[1].source = "ContinuousEnergyMonitor"
    /\ sample[1].metrics.state = "active"
    /\ sample[1].metrics.is_idle = FALSE

\* the last DockerManager call
LastOp == ops[Len(ops)]

\* C27: every container of the registry has one host and a status among
\* created, running, stopped; create_container on an id the registry has
\* replaces its record (the host given, status created) and adds none;
\* start_container and stop_container on an id the registry has set its
\* status and leave its host.
C27_OneHostPerContainer ==
    /\ \A c \in DOMAIN containers :
          /\ containers[c].host_id \in HostIdArgs
          /\ containers[c].status \in {"created", "running", "stopped"}
    /\ (ops # <<>> /\ LastOp.container_id \in DOMAIN LastOp.before) =>
          LET c == LastOp.container_id IN
          /\ LastOp.op = "create_container" =>
                /\ DOMAIN containers = DOMAIN LastOp.before
                /\ containers[c].host_id = LastOp.host_id[1]
                /\ containers[c].status = "created"
          /\ LastOp.op = "start_container" =>
                /\ containers[c].host_id = LastOp.before[c].host_id
                /\ containers[c].status = "running"
          /\ LastOp.op = "stop_container" =>
                /\ containers[c].host_id = LastOp.before[c].host_id
                /\ containers[c].status = "stopped"

\* a running container was created again, on another host
C27_Witness ==
    /\ ops # <<>>
    /\ LastOp.op = "create_container"
    /\ LastOp.container_id \in DOMAIN LastOp.before
    /\ LastOp.before[LastOp.container_id].status = "running"
    /\ LastOp.before[LastOp.container_id].host_id # LastOp.host_id[1]

\* C28: start_container, stop_container and remove_container on an id the
\* registry does not have leave the registry as it was, and every
\* DockerManager call leaves the records of the containers it does not
\* name as they were.
C28_OnlyTheNamedContainer ==
    ops # <<>> =>
        /\ (LastOp.op # "create_container"
            /\ LastOp.container_id \notin DOMAIN LastOp.before)
              => containers = LastOp.before
        /\ DOMAIN containers \ {LastOp.container_id}
              = DOMAIN LastOp.before \ {LastOp.container_id}
        /\ \A c \in DOMAIN LastOp.before \ {LastOp.container_id} :
              containers[c] = LastOp.before[c]

\* a stop of an id the registry does not have, with another container there
C28_Witness ==
    /\ ops # <<>>
    /\ LastOp.op = "stop_container"
    /\ LastOp.container_id \notin DOMAIN LastOp.before
    /\ DOMAIN LastOp.before # {}
    /\ \E c \in DOMAIN containers : containers[c].status = "created"

\* C30: a placement schedule_workload returns names a host of the
\* available_hosts it was given, it returns none only for the empty list,
\* and the call leaves the cluster's hosts and the scheduler's weights as
\* they were.
C30_PlacementAmongOffered ==
    [][(calls' # calls /\ calls' # <<>>) =>
          LET call == calls'[Len(calls')] IN
          /\ call.decision # <<>> =>
                \E a \in DOMAIN call.available_hosts :
                    call.available_hosts[a].host_id = call.decision[1].host_id
          /\ (call.decision = <<>>) = (call.available_hosts = <<>>)
          /\ hosts' = hosts
          /\ scheduler' = scheduler]_vars

\* a call offered only the second host of the cluster and got it
C30_Witness ==
    /\ calls # <<>>
    /\ Len(hosts) = 2
    /\ Len(calls[1].available_hosts) = 1
    /\ calls[1].decision # <<>>
    /\ calls[1].decision[1].host_id = 2

\* C22: the loop halts only between cycles: it is left from the test of
\* self.running or from the sleep after the KPIs were updated, never from a
\* position between the start of a cycle and the end of its KPI update.
C22_CycleFinishesBeforeHalt ==
    monitor.pc = "halted" => monitor.halted_from \in {"while", "sleep"}

\* C24: when _update_kpis has written the KPIs in a cycle, their
\* total_power_watts is the sum of power_watts over the data points the
\* cycle generated.
C24_KpisFromThisCycle ==
    (monitor.pc = "sleep" /\ monitor.kpis_written) =>
        monitor.kpis[1].total_power_watts =
              SumSeq([i \in DOMAIN monitor.points |-> monitor.points[i].power_watts], 1)

\* C25: the log holds at most KeepRows rows, and they are the rows written
\* last, in the order they were written.
C25_LogKeepsLastRows ==
    /\ Len(monitor.csv) <= KeepRows
    /\ monitor.csv = Tail_n(monitor.appended, KeepRows)

\* rows were dropped: the log is full, begins with a row of the first cycle
\* and ends with the last row of the second
C25_Witness ==
    /\ Len(monitor.appended) > KeepRows
    /\ Len(monitor.csv) = KeepRows
    /\ monitor.csv[1].timestamp = 1
    /\ monitor.csv[KeepRows].timestamp = 2
    /\ monitor.csv[KeepRows].host_id = 5

====
